---- MODULE Spec2Model ----
(***************************************************************************)
(* cutaudio: the interactive segment-marking session (generate_cutfile and *)
(* the Player that tracks mplayer's playback position on a background      *)
(* task) and the cut-list line format (writer '  %f %s\n', reader          *)
(* parse_cutfile with CUTFILE_REGEX).                                      *)
(*                                                                         *)
(* Text is modelled as sequences of one-character strings.  A position (a  *)
(* Python float of seconds) is modelled in fixed point: an integer count   *)
(* of 1/Scale seconds, one decimal digit finer than what '%f' writes.      *)
(***************************************************************************)
EXTENDS Integers, Sequences, FiniteSets, TLC

\* ------------------------------------------------------------- bounds ---
MaxBuf    == 3      \* longest status buffer the child is allowed to build up
MaxInputs == 2      \* console events (lines typed or end-of-input) per session
MaxLines  == 3      \* lines of a cut-list handed to parse_cutfile
MaxFiles  == 2      \* input files given to cutaudio
MaxCuts   == 2      \* cuts handed to process_cutfile
MaxFrags  == 3      \* files sox leaves in the temporary directory

\* ------------------------------------------------------ text helpers ---
FracDigits == 6                       \* digits '%f' writes after the point
Scale == 10 ^ (FracDigits + 1)        \* position unit: 10^-7 s

Digits == {"0", "1", "2", "3", "4", "5", "6", "7", "8", "9"}

CR == "\r"
NL == "\n"

DigitVal(c) ==
  CASE c = "0" -> 0 [] c = "1" -> 1 [] c = "2" -> 2 [] c = "3" -> 3
    [] c = "4" -> 4 [] c = "5" -> 5 [] c = "6" -> 6 [] c = "7" -> 7
    [] c = "8" -> 8 [] c = "9" -> 9

DigitChar(d) ==
  CASE d = 0 -> "0" [] d = 1 -> "1" [] d = 2 -> "2" [] d = 3 -> "3"
    [] d = 4 -> "4" [] d = 5 -> "5" [] d = 6 -> "6" [] d = 7 -> "7"
    [] d = 8 -> "8" [] d = 9 -> "9"

\* the character class [0-9.] used by both regular expressions
IsNumChar(c) == c \in Digits \cup {"."}

\* length of the longest run of [0-9.] characters of s starting at index from
RECURSIVE NumRun(_, _)
NumRun(s, from) ==
  IF from > Len(s) \/ ~IsNumChar(s[from]) THEN 0 ELSE 1 + NumRun(s, from + 1)

IndexOf(s, c) ==
  IF \E i \in 1..Len(s) : s[i] = c
    THEN CHOOSE i \in 1..Len(s) : s[i] = c /\ \A j \in 1..(i - 1) : s[j] # c
    ELSE 0

Count(s, c) == Cardinality({i \in 1..Len(s) : s[i] = c})

\* float(s) for s over [0-9.]: Python accepts it iff it has at most one '.'
\* and at least one digit ('.', '1.2.3' and '1..' raise ValueError)
FloatOk(s) == Count(s, ".") <= 1 /\ \E i \in 1..Len(s) : s[i] \in Digits

RECURSIVE IntVal(_)
IntVal(s) ==
  IF Len(s) = 0 THEN 0
  ELSE 10 * IntVal(SubSeq(s, 1, Len(s) - 1)) + DigitVal(s[Len(s)])

\* value of the fractional digits s, in units of unit/10 per first digit
RECURSIVE FracVal(_, _)
FracVal(s, unit) ==
  IF Len(s) = 0 \/ unit < 10 THEN 0
  ELSE DigitVal(s[1]) * (unit \div 10) + FracVal(Tail(s), unit \div 10)

\* float(s), in 1/Scale seconds, for a string s with FloatOk(s)
FloatVal(s) ==
  LET d == IndexOf(s, ".")
  IN  IF d = 0 THEN IntVal(s) * Scale
      ELSE IntVal(SubSeq(s, 1, d - 1)) * Scale
           + FracVal(SubSeq(s, d + 1, Len(s)), Scale)

RECURSIVE IntDigits(_)
IntDigits(n) ==
  IF n < 10 THEN <<DigitChar(n)>>
  ELSE Append(IntDigits(n \div 10), DigitChar(n % 10))

\* exactly w digits of n, zero padded on the left
RECURSIVE PadDigits(_, _)
PadDigits(n, w) ==
  IF w = 0 THEN <<>>
  ELSE Append(PadDigits(n \div 10, w - 1), DigitChar(n % 10))

\* '%f' % p: six digits after the point, the seventh rounded away
Micro(p) == (p + 5) \div 10
FormatF(p) ==
  IntDigits(Micro(p) \div (10 ^ FracDigits)) \o <<".">>
    \o PadDigits(Micro(p) % (10 ^ FracDigits), FracDigits)

\* ------------------------------------------------- cut-list line format ---
\* the record line generate_cutfile writes: '  %f %s\n' % (position, name)
RecordLine(pos, name) == <<" ", " ">> \o FormatF(pos) \o <<" ">> \o name \o <<NL>>

\* re.match(CUTFILE_REGEX, line) with CUTFILE_REGEX = ^([0-9.]+) ([^/]+)$ :
\* anchored at the first character; group 1 is the leading run of [0-9.],
\* then one space, then group 2 = the non-empty rest, which holds no '/'
\* ([^/] also matches the line terminator, so group 2 keeps it).
CutGroup1(line) == SubSeq(line, 1, NumRun(line, 1))
CutGroup2(line) == SubSeq(line, NumRun(line, 1) + 2, Len(line))
CutfileMatch(line) ==
  LET k == NumRun(line, 1)
  IN  /\ k >= 1
      /\ Len(line) >= k + 2
      /\ line[k + 1] = " "
      /\ \A i \in (k + 2)..Len(line) : line[i] # "/"

\* ------------------------------------------------- player status format ---
\* re.match(br'^[^(]+\(([0-9.]+).*$', buffer): at least one character before
\* the first '(', a run of [0-9.] right after it (the group), and the rest
\* free of line feeds except possibly as the very last character.
StatusGroup(buf) ==
  LET p == IndexOf(buf, "(") IN SubSeq(buf, p + 1, p + NumRun(buf, p + 1))
StatusMatch(buf) ==
  LET p == IndexOf(buf, "(")
      m == NumRun(buf, p + 1)
  IN  /\ p >= 2
      /\ m >= 1
      /\ \A i \in (p + m + 1)..(Len(buf) - 1) : buf[i] # NL

\* ---------------------------------------------------------- the state ---
VARIABLES
  position,   \* Player.position, in 1/Scale seconds
  playing,    \* Player.playing
  stop,       \* Player._stop
  future,     \* state of Player.future: "pending", "running" or "finished"
  exc,        \* the exception the future holds once the task has raised
  bgpc,       \* where the background task Player.play stands
  buffer,     \* the local line buffer of Player.play
  code,       \* exit code of the mplayer child, NoCode while it has not exited
  fgpc,       \* where generate_cutfile stands
  inputs,     \* what the console has delivered to input() so far
  disk,       \* lines of the cut file that have reached the file
  pending,    \* lines written to fp but not flushed yet
  errs,       \* number of 'Name may not contain "/"' messages on stderr
  lines,      \* parse_cutfile: the lines it iterates over
  idx,        \* parse_cutfile: number of lines consumed
  yielded,    \* parse_cutfile: the records yielded so far
  perr,       \* parse_cutfile: the exception that ended the generator
  args,       \* cutaudio: its arguments and the machine it is started on
  cutText,    \* the cut files: for each root, the lines of <root>.cut
  cpc,        \* where cutaudio stands
  ci,         \* cutaudio: index of the input file the for loop is at
  exitcode,   \* exit status of the process, NoCode while it runs
  fatal,      \* the uncaught exception that ended the run
  recorded,   \* indexes of the input files generate_cutfile was run for
  cutAttempts,\* indexes of the input files the cutting step was entered for
  cuts,       \* process_cutfile: its list of cuts
  pext,       \* process_cutfile: out_extension
  ppc,        \* where process_cutfile stands
  soxrc,      \* process_cutfile: p.returncode of sox
  trims,      \* the command lines sox has been started with
  tmpdir,     \* names of the files in the temporary directory
  moved       \* the renames done: <<name in tmp, name in outdir>>

vars == <<position, playing, stop, future, exc, bgpc, buffer, code, fgpc,
          inputs, disk, pending, errs, lines, idx, yielded, perr,
          args, cutText, cpc, ci, exitcode, fatal, recorded, cutAttempts,
          cuts, pext, ppc, soxrc, trims, tmpdir, moved>>

playerVars == <<position, playing, stop, future, exc, bgpc, buffer, code>>
recorderVars == <<fgpc, inputs, disk, pending, errs>>
parseVars == <<lines, idx, yielded, perr>>
cutVars == <<args, cutText, cpc, ci, exitcode, fatal, recorded, cutAttempts>>
procVars == <<cuts, pext, ppc, soxrc, trims, tmpdir, moved>>
runVars == <<cutVars, procVars>>

NoCode == 0 - 1                       \* p.poll() returning None

NoExc == [type |-> "none", code |-> NoCode, text |-> <<>>]

\* what the child may put on its output, and what the user may type
StreamChars == {"A", "(", "1", "2", ".", CR}
Names == {<<"a">>, <<"b">>, <<"a", "/">>}
EOF == <<"^D">>                       \* input() raising EOFError
Infile == <<"x", ".", "m">>
Header == Infile \o <<NL>>
ExitCodes == {0, 1}
StderrText == <<"e", "r", "r">>       \* what p.stderr.read() returns

HasSlash(name) == \E i \in 1..Len(name) : name[i] = "/"

\* --------------------------------------------------- Player.__init__ ---
\* generate_cutfile up to and including player = Player(infile): the cut
\* file is open and empty, the header sits in fp's buffer, the task is
\* submitted to the executor and has not begun to run.
SessionInit ==
  /\ position = 0
  /\ playing = TRUE
  /\ stop = FALSE
  /\ future = "pending"
  /\ exc = NoExc
  /\ bgpc = "pending"
  /\ buffer = <<>>
  /\ code = NoCode
  /\ fgpc = "while"
  /\ inputs = <<>>
  /\ disk = <<>>
  /\ pending = <<Header>>
  /\ errs = 0

ParseIdle ==
  /\ lines = <<>>
  /\ idx = 0
  /\ yielded = <<>>
  /\ perr = NoExc

\* ---------------------------------------------- files and arguments ---
Paths == {<<"x", ".", "m">>, <<"x", ".", "n">>, <<"y">>}
Tools == {"sox", "mplayer"}
Extensions == {<<>>, <<".", "g">>}      \* the extension option, <<>> when not given

\* os.path.splitext on a name without directory part: the extension starts
\* at the last dot, unless only dots precede it
LastDot(path) ==
  IF \E i \in 1..Len(path) : path[i] = "."
    THEN CHOOSE i \in 1..Len(path) :
           path[i] = "." /\ \A j \in (i + 1)..Len(path) : path[j] # "."
    ELSE 0
ExtStart(path) ==
  IF LastDot(path) > 1 /\ \E j \in 1..(LastDot(path) - 1) : path[j] # "."
    THEN LastDot(path) ELSE Len(path) + 1
Root(path) == SubSeq(path, 1, ExtStart(path) - 1)         \* outdir
InExtension(path) == SubSeq(path, ExtStart(path), Len(path))
Cutfile(path) == Root(path) \o <<".", "c", "u", "t">>
Roots == {Root(q) : q \in Paths}

RECURSIVE LStripDots(_)
LStripDots(e) == IF Len(e) > 0 /\ e[1] = "." THEN LStripDots(Tail(e)) ELSE e
OutExtension(path, extension) ==
  IF extension # <<>> THEN <<".">> \o LStripDots(extension) ELSE InExtension(path)

HeaderOf(path) == path \o <<NL>>

NoArgs == [tools |-> {}, infiles |-> <<>>, overwrite |-> FALSE, extension |-> <<>>,
           regular |-> {}, cut0 |-> [r \in Roots |-> <<>>], dirs |-> {}]

\* no cutaudio run and no process_cutfile call in progress
CutIdle ==
  /\ args = NoArgs
  /\ cutText = [r \in Roots |-> <<>>]
  /\ cpc = "none"
  /\ ci = 0
  /\ exitcode = NoCode
  /\ fatal = NoExc
  /\ recorded = <<>>
  /\ cutAttempts = <<>>
ProcIdle ==
  /\ cuts = <<>>
  /\ pext = <<>>
  /\ ppc = "none"
  /\ soxrc = NoCode
  /\ trims = <<>>
  /\ tmpdir = {}
  /\ moved = {}

Init == SessionInit /\ ParseIdle /\ CutIdle /\ ProcIdle

\* ------------------------------------------------------- Player.play ---
\* a worker of the executor picks the task up; play() spawns mplayer
BgStart ==
  /\ bgpc = "pending"
  /\ future' = "running"
  /\ bgpc' = "poll"
  /\ UNCHANGED <<position, playing, stop, exc, buffer, code>>
  /\ UNCHANGED recorderVars /\ UNCHANGED parseVars /\ UNCHANGED runVars

\* code = p.poll() and the if / elif chain on self._stop and code
BgPoll ==
  /\ bgpc = "poll"
  /\ IF stop THEN
       /\ bgpc' = "exit" /\ UNCHANGED <<future, exc>>
     ELSE IF code = NoCode THEN
       /\ bgpc' = "read" /\ UNCHANGED <<future, exc>>
     ELSE IF code = 0 THEN
       /\ bgpc' = "exit" /\ UNCHANGED <<future, exc>>
     ELSE
       /\ bgpc' = "raised"
       /\ future' = "finished"
       /\ exc' = [type |-> "EnvironmentError", code |-> code, text |-> StderrText]
  /\ UNCHANGED <<position, playing, stop, buffer, code>>
  /\ UNCHANGED recorderVars /\ UNCHANGED parseVars /\ UNCHANGED runVars

\* Consume, except that a buffer without a position is kept
ConsumeKeeping(c) ==
  IF c = CR THEN
    IF StatusMatch(buffer) THEN
      IF FloatOk(StatusGroup(buffer)) THEN
        /\ position' = FloatVal(StatusGroup(buffer))
        /\ buffer' = <<>>
        /\ bgpc' = "poll"
        /\ UNCHANGED <<future, exc>>
      ELSE
        /\ bgpc' = "raised"
        /\ future' = "finished"
        /\ exc' = [type |-> "ValueError", code |-> NoCode, text |-> StatusGroup(buffer)]
        /\ UNCHANGED <<position, buffer>>
    ELSE
      /\ bgpc' = "poll"
      /\ UNCHANGED <<position, buffer, future, exc>>
  ELSE
    /\ buffer' = Append(buffer, c)
    /\ bgpc' = "poll"
    /\ UNCHANGED <<position, future, exc>>

\* Consume, except that a buffer without a position resets the position
ConsumeResetting(c) ==
  IF c = CR THEN
    IF StatusMatch(buffer) /\ FloatOk(StatusGroup(buffer)) THEN
      /\ position' = FloatVal(StatusGroup(buffer))
      /\ buffer' = <<>>
      /\ bgpc' = "poll"
      /\ UNCHANGED <<future, exc>>
    ELSE
      /\ position' = 0
      /\ buffer' = <<>>
      /\ bgpc' = "poll"
      /\ UNCHANGED <<future, exc>>
  ELSE
    /\ buffer' = Append(buffer, c)
    /\ bgpc' = "poll"
    /\ UNCHANGED <<position, future, exc>>

\* what the loop does with the character that read(1) returned
Consume(c) ==
  IF c = CR THEN
    IF StatusMatch(buffer) THEN
      IF FloatOk(StatusGroup(buffer)) THEN
        /\ position' = FloatVal(StatusGroup(buffer))
        /\ buffer' = <<>>
        /\ bgpc' = "poll"
        /\ UNCHANGED <<future, exc>>
      ELSE
        \* float() raises ValueError inside the task
        /\ bgpc' = "raised"
        /\ future' = "finished"
        /\ exc' = [type |-> "ValueError", code |-> NoCode, text |-> StatusGroup(buffer)]
        /\ UNCHANGED <<position, buffer>>
    ELSE
      /\ buffer' = <<>>
      /\ bgpc' = "poll"
      /\ UNCHANGED <<position, future, exc>>
  ELSE
    /\ buffer' = Append(buffer, c)
    /\ bgpc' = "poll"
    /\ UNCHANGED <<position, future, exc>>

\* char = p.stdout.read(1) returns a character: one the child writes now or
\* one it left in the pipe; while the child lives and stays silent the read
\* blocks and this step is not taken
BgReadChar ==
  /\ bgpc = "read"
  /\ \E c \in StreamChars :
       /\ c # CR => Len(buffer) < MaxBuf
       /\ Consume(c)
  /\ UNCHANGED <<playing, stop, code>>
  /\ UNCHANGED recorderVars /\ UNCHANGED parseVars /\ UNCHANGED runVars

\* char = p.stdout.read(1) after the child has exited and its output is
\* drained: end of file, read returns b'' and buffer += b'' changes nothing
BgReadEOF ==
  /\ bgpc = "read"
  /\ code # NoCode
  /\ bgpc' = "poll"
  /\ UNCHANGED <<position, playing, stop, future, exc, buffer, code>>
  /\ UNCHANGED recorderVars /\ UNCHANGED parseVars /\ UNCHANGED runVars

\* BgExit, with the assignment inside the loop and no break
BgExitKeepsReading ==
  /\ bgpc = "exit"
  /\ playing' = FALSE
  /\ bgpc' = "read"
  /\ UNCHANGED <<position, stop, future, exc, buffer, code>>
  /\ UNCHANGED recorderVars /\ UNCHANGED parseVars /\ UNCHANGED runVars

\* self.playing = False, after either break
BgExit ==
  /\ bgpc = "exit"
  /\ playing' = FALSE
  /\ bgpc' = "return"
  /\ UNCHANGED <<position, stop, future, exc, buffer, code>>
  /\ UNCHANGED recorderVars /\ UNCHANGED parseVars /\ UNCHANGED runVars

\* play() returns and the executor marks the future finished
BgReturn ==
  /\ bgpc = "return"
  /\ future' = "finished"
  /\ bgpc' = "done"
  /\ UNCHANGED <<position, playing, stop, exc, buffer, code>>
  /\ UNCHANGED recorderVars /\ UNCHANGED parseVars /\ UNCHANGED runVars

\* the mplayer child exits, normally (0) or not
ChildExit ==
  /\ bgpc # "pending"
  /\ code = NoCode
  /\ \E c \in ExitCodes : code' = c
  /\ UNCHANGED <<position, playing, stop, future, exc, bgpc, buffer>>
  /\ UNCHANGED recorderVars /\ UNCHANGED parseVars /\ UNCHANGED runVars

\* -------------------------------------------------- generate_cutfile ---
\* while player.playing: either enter input('Segment name: '), which shows
\* the prompt, or leave the loop and the with block, which closes fp
FgWhile ==
  /\ fgpc = "while"
  /\ IF playing THEN
       /\ fgpc' = "input"
       /\ UNCHANGED <<disk, pending>>
     ELSE
       /\ fgpc' = "done"
       /\ disk' = disk \o pending
       /\ pending' = <<>>
  /\ UNCHANGED <<inputs, errs>>
  /\ UNCHANGED playerVars /\ UNCHANGED parseVars /\ UNCHANGED runVars

\* FgInputName without the test for '/'
FgInputNameUnchecked ==
  /\ fgpc = "input"
  /\ Len(inputs) < MaxInputs
  /\ \E name \in Names :
       /\ inputs' = Append(inputs, name)
       /\ disk' = disk \o Append(pending, RecordLine(position, name))
       /\ pending' = <<>>
       /\ UNCHANGED errs
  /\ fgpc' = "while"
  /\ UNCHANGED playerVars /\ UNCHANGED parseVars /\ UNCHANGED runVars

\* FgInputName without fp.flush()
FgInputNameUnflushed ==
  /\ fgpc = "input"
  /\ Len(inputs) < MaxInputs
  /\ \E name \in Names :
       /\ inputs' = Append(inputs, name)
       /\ IF HasSlash(name) THEN
            /\ errs' = errs + 1
            /\ UNCHANGED <<disk, pending>>
          ELSE
            /\ pending' = Append(pending, RecordLine(position, name))
            /\ UNCHANGED <<disk, errs>>
  /\ fgpc' = "while"
  /\ UNCHANGED playerVars /\ UNCHANGED parseVars /\ UNCHANGED runVars

\* input() returns a line: the else branch of the try
FgInputName ==
  /\ fgpc = "input"
  /\ Len(inputs) < MaxInputs
  /\ \E name \in Names :
       /\ inputs' = Append(inputs, name)
       /\ IF HasSlash(name) THEN
            /\ errs' = errs + 1
            /\ UNCHANGED <<disk, pending>>
          ELSE
            \* fp.write('  %f %s\n' % (player.position, filename)); fp.flush()
            /\ disk' = disk \o Append(pending, RecordLine(position, name))
            /\ pending' = <<>>
            /\ UNCHANGED errs
  /\ fgpc' = "while"
  /\ UNCHANGED playerVars /\ UNCHANGED parseVars /\ UNCHANGED runVars

\* FgInputEOF, with stop() also clearing playing itself
FgInputEOFClearsPlaying ==
  /\ fgpc = "input"
  /\ Len(inputs) < MaxInputs
  /\ inputs' = Append(inputs, EOF)
  /\ stop' = TRUE
  /\ playing' = FALSE
  /\ fgpc' = "wait"
  /\ UNCHANGED <<position, future, exc, bgpc, buffer, code>>
  /\ UNCHANGED <<disk, pending, errs>>
  /\ UNCHANGED parseVars /\ UNCHANGED runVars

\* input() raises EOFError: player.stop() sets the flag and starts to wait
FgInputEOF ==
  /\ fgpc = "input"
  /\ Len(inputs) < MaxInputs
  /\ inputs' = Append(inputs, EOF)
  /\ stop' = TRUE
  /\ fgpc' = "wait"
  /\ UNCHANGED <<position, playing, future, exc, bgpc, buffer, code>>
  /\ UNCHANGED <<disk, pending, errs>>
  /\ UNCHANGED parseVars /\ UNCHANGED runVars

\* Player.stop: while self.future.running(): pass -- then back to the while
FgWait ==
  /\ fgpc = "wait"
  /\ future # "running"
  /\ fgpc' = "while"
  /\ UNCHANGED <<inputs, disk, pending, errs>>
  /\ UNCHANGED playerVars /\ UNCHANGED parseVars /\ UNCHANGED runVars

Next ==
  \/ BgStart \/ BgPoll \/ BgReadChar \/ BgReadEOF \/ BgExit \/ BgReturn
  \/ ChildExit
  \/ FgWhile \/ FgInputName \/ FgInputEOF \/ FgWait

Spec == Init /\ [][Next]_vars

\* ---------------------------------------------------- parse_cutfile ---
\* Cut-lists handed to parse_cutfile: record lines as generate_cutfile
\* writes them, or lines of a cut file the user edited by hand.
Positions == {0, 15000000, 20000004, 6}
RecordNames == {<<"a">>, <<"b", " ", "c">>, <<>>}
Records == [pos : Positions, name : RecordNames]
WrittenLines == {RecordLine(r.pos, r.name) : r \in Records}
EditedLines ==
  { <<"1", ".", "5", " ", "a", NL>>,
    <<"2", " ", "b", NL>>,
    <<" ", " ", "a", "b", "c", " ", "n", NL>>,
    <<".", " ", "a", NL>>,
    <<"2", " ", "b", "/", "c", NL>>,
    <<NL>>,
    Header }

SeqsUpTo(S, n) == UNION {[1..k -> S] : k \in 0..n}

\* no recording session in this run; the generator has not been advanced
ParseInit ==
  /\ position = 0
  /\ playing = FALSE
  /\ stop = FALSE
  /\ future = "finished"
  /\ exc = NoExc
  /\ bgpc = "done"
  /\ buffer = <<>>
  /\ code = 0
  /\ fgpc = "done"
  /\ inputs = <<>>
  /\ disk = <<>>
  /\ pending = <<>>
  /\ errs = 0
  /\ lines \in SeqsUpTo(WrittenLines, MaxLines) \cup SeqsUpTo(EditedLines, MaxLines)
  /\ idx = 0
  /\ yielded = <<>>
  /\ perr = NoExc
  /\ CutIdle /\ ProcIdle

InvalidLine(line) == [type |-> "ValueError", code |-> NoCode,
                      text |-> <<"Invalid line: ">> \o line]
FloatError(s) == [type |-> "ValueError", code |-> NoCode,
                  text |-> <<"could not convert string to float: ">> \o s]

\* ParseNext, except that a line that does not match is skipped
ParseNextSkipping ==
  /\ perr = NoExc
  /\ idx < Len(lines)
  /\ LET line == lines[idx + 1] IN
       IF CutfileMatch(line) THEN
         IF FloatOk(CutGroup1(line)) THEN
           /\ yielded' = Append(yielded, <<FloatVal(CutGroup1(line)), CutGroup2(line)>>)
           /\ idx' = idx + 1
           /\ UNCHANGED perr
         ELSE
           /\ perr' = FloatError(CutGroup1(line))
           /\ UNCHANGED <<yielded, idx>>
       ELSE
         /\ idx' = idx + 1
         /\ UNCHANGED <<yielded, perr>>
  /\ UNCHANGED lines
  /\ UNCHANGED playerVars /\ UNCHANGED recorderVars /\ UNCHANGED runVars

\* one advance of the generator: the next line is matched and either a
\* record is yielded or the generator dies with an exception
ParseNext ==
  /\ perr = NoExc
  /\ idx < Len(lines)
  /\ LET line == lines[idx + 1] IN
       IF CutfileMatch(line) THEN
         IF FloatOk(CutGroup1(line)) THEN
           /\ yielded' = Append(yielded, <<FloatVal(CutGroup1(line)), CutGroup2(line)>>)
           /\ idx' = idx + 1
           /\ UNCHANGED perr
         ELSE
           /\ perr' = FloatError(CutGroup1(line))
           /\ UNCHANGED <<yielded, idx>>
       ELSE
         /\ perr' = InvalidLine(line)
         /\ UNCHANGED <<yielded, idx>>
  /\ UNCHANGED lines
  /\ UNCHANGED playerVars /\ UNCHANGED recorderVars /\ UNCHANGED runVars

ParseSpec == ParseInit /\ [][ParseNext]_vars

\* ---------------------------------------------------------- cutaudio ---
\* a cut file left by an earlier run
OldCut == <<Header, RecordLine(15000000, <<"a">>)>>
\* what a recording session may leave behind: the records of its cut file
SessionRecords == [pos : {0, 15000000}, name : {<<"a">>, <<"b">>}]
WriteRecords(recs) == [i \in 1..Len(recs) |-> RecordLine(recs[i].pos, recs[i].name)]
\* iterating over a str yields its characters, one string each
CharsOf(str) == [k \in 1..Len(str) |-> <<str[k]>>]

SessionIdle ==
  /\ position = 0
  /\ playing = FALSE
  /\ stop = FALSE
  /\ future = "finished"
  /\ exc = NoExc
  /\ bgpc = "done"
  /\ buffer = <<>>
  /\ code = 0
  /\ fgpc = "done"
  /\ inputs = <<>>
  /\ disk = <<>>
  /\ pending = <<>>
  /\ errs = 0

\* cutaudio is entered: any arguments, any set of installed tools, any files
CutInit ==
  /\ SessionIdle /\ ParseIdle /\ ProcIdle
  /\ args \in [tools : SUBSET Tools, infiles : SeqsUpTo(Paths, MaxFiles),
               overwrite : BOOLEAN, extension : Extensions,
               regular : SUBSET Paths, cut0 : [Roots -> {<<>>, OldCut}],
               dirs : SUBSET Roots]
  /\ cutText = args.cut0
  /\ cpc = "preflight"
  /\ ci = 0
  /\ exitcode = NoCode
  /\ fatal = NoExc
  /\ recorded = <<>>
  /\ cutAttempts = <<>>

CurFile == args.infiles[ci]

\* CutPreflight, testing only the first input path
CutPreflightFirstOnly ==
  /\ cpc = "preflight"
  /\ IF \/ ~(Tools \subseteq args.tools)
        \/ Len(args.infiles) = 0
        \/ args.infiles[1] \notin args.regular
       THEN cpc' = "exit" /\ exitcode' = 1 /\ UNCHANGED ci
       ELSE cpc' = "iter" /\ ci' = 1 /\ UNCHANGED exitcode
  /\ UNCHANGED <<args, cutText, fatal, recorded, cutAttempts>>
  /\ UNCHANGED playerVars /\ UNCHANGED recorderVars
  /\ UNCHANGED parseVars /\ UNCHANGED procVars

\* the checks before the loop: `which` for both tools, then the input list
CutPreflight ==
  /\ cpc = "preflight"
  /\ IF \/ ~(Tools \subseteq args.tools)
        \/ Len(args.infiles) = 0
        \/ \E i \in 1..Len(args.infiles) : args.infiles[i] \notin args.regular
       THEN cpc' = "exit" /\ exitcode' = 1 /\ UNCHANGED ci
       ELSE cpc' = "iter" /\ ci' = 1 /\ UNCHANGED exitcode
  /\ UNCHANGED <<args, cutText, fatal, recorded, cutAttempts>>
  /\ UNCHANGED playerVars /\ UNCHANGED recorderVars
  /\ UNCHANGED parseVars /\ UNCHANGED procVars

\* CutIterRecord without the test on the cut file
CutIterRecordAlways ==
  /\ cpc = "iter"
  /\ ci <= Len(args.infiles)
  /\ \E recs \in SeqsUpTo(SessionRecords, MaxInputs) :
       cutText' = [cutText EXCEPT ![Root(CurFile)] =
                     <<HeaderOf(CurFile)>> \o WriteRecords(recs)]
  /\ recorded' = Append(recorded, ci)
  /\ cpc' = "cutstep"
  /\ UNCHANGED <<args, ci, exitcode, fatal, cutAttempts>>
  /\ UNCHANGED playerVars /\ UNCHANGED recorderVars
  /\ UNCHANGED parseVars /\ UNCHANGED procVars

\* head of an iteration and step 1: generate_cutfile, when asked to overwrite
\* or when there is no cut file; the session leaves the header and one
\* record line per accepted name in the cut file
CutIterRecord ==
  /\ cpc = "iter"
  /\ ci <= Len(args.infiles)
  /\ IF args.overwrite \/ cutText[Root(CurFile)] = <<>>
       THEN /\ \E recs \in SeqsUpTo(SessionRecords, MaxInputs) :
                 cutText' = [cutText EXCEPT ![Root(CurFile)] =
                               <<HeaderOf(CurFile)>> \o WriteRecords(recs)]
            /\ recorded' = Append(recorded, ci)
       ELSE UNCHANGED <<cutText, recorded>>
  /\ cpc' = "cutstep"
  /\ UNCHANGED <<args, ci, exitcode, fatal, cutAttempts>>
  /\ UNCHANGED playerVars /\ UNCHANGED recorderVars
  /\ UNCHANGED parseVars /\ UNCHANGED procVars

\* step 2: when there is no output directory, cuts = parse_cutfile(cutfile)
\* makes a generator over the file NAME and process_cutfile is entered;
\* otherwise the loop goes on to the next input file
CutIterCut ==
  /\ cpc = "cutstep"
  /\ IF Root(CurFile) \notin args.dirs
       THEN /\ lines' = CharsOf(Cutfile(CurFile))
            /\ idx' = 0 /\ yielded' = <<>> /\ perr' = NoExc
            /\ pext' = OutExtension(CurFile, args.extension)
            /\ cutAttempts' = Append(cutAttempts, ci)
            /\ cpc' = "list"
            /\ UNCHANGED ci
       ELSE /\ cpc' = "iter"
            /\ ci' = ci + 1
            /\ UNCHANGED <<lines, idx, yielded, perr, pext, cutAttempts>>
  /\ UNCHANGED <<args, cutText, exitcode, fatal, recorded>>
  /\ UNCHANGED <<cuts, ppc, soxrc, trims, tmpdir, moved>>
  /\ UNCHANGED playerVars /\ UNCHANGED recorderVars

\* cuts=list(cuts) in process_cutfile advances the generator (ParseNext);
\* its exception leaves process_cutfile and cutaudio uncaught
CutRaise ==
  /\ cpc = "list"
  /\ perr # NoExc
  /\ fatal' = perr
  /\ exitcode' = 1
  /\ cpc' = "exit"
  /\ UNCHANGED <<args, cutText, ci, recorded, cutAttempts>>
  /\ UNCHANGED playerVars /\ UNCHANGED recorderVars
  /\ UNCHANGED parseVars /\ UNCHANGED procVars

\* the for loop is exhausted and cutaudio returns
CutDone ==
  /\ cpc = "iter"
  /\ ci > Len(args.infiles)
  /\ exitcode' = 0
  /\ cpc' = "exit"
  /\ UNCHANGED <<args, cutText, ci, fatal, recorded, cutAttempts>>
  /\ UNCHANGED playerVars /\ UNCHANGED recorderVars
  /\ UNCHANGED parseVars /\ UNCHANGED procVars

\* The generator over the characters of a file name dies at its first
\* character, so within cutaudio process_cutfile never gets past list(cuts).
CutNext ==
  \/ CutPreflight \/ CutIterRecord \/ CutIterCut \/ ParseNext \/ CutRaise
  \/ CutDone

CutSpec == CutInit /\ [][CutNext]_vars

\* --------------------------------------------------- process_cutfile ---
Sox == <<"s", "o", "x">>
Trim == <<"t", "r", "i", "m">>
Colon == <<":">>
Newfile == <<"n", "e", "w", "f", "i", "l", "e">>
TmpDir == <<"t", "m", "p">>           \* the TemporaryDirectory
Intro == <<"i", "n", "t", "r", "o">>
Verse == <<"v", "e", "r", "s", "e">>
ProcRecords == {<<e, n>> : e \in {Scale, 25000000, 6}, n \in {Intro, Verse}}
ProcExtensions == {<<".", "m">>, <<".", "t", ".", "g">>}

RECURSIVE StripZeros(_)
StripZeros(ds) ==
  IF Len(ds) > 0 /\ ds[Len(ds)] = "0" THEN StripZeros(SubSeq(ds, 1, Len(ds) - 1)) ELSE ds

\* str(p) of a float: the shortest digits that give p back, in exponent
\* notation below 0.0001
StrFloat(p) ==
  IF p = 0 \/ p >= Scale \div 10000 THEN
    LET f == StripZeros(PadDigits(p % Scale, FracDigits + 1))
    IN  IntDigits(p \div Scale) \o <<".">> \o (IF f = <<>> THEN <<"0">> ELSE f)
  ELSE
    LET d == StripZeros(IntDigits(p))
        e == (FracDigits + 1) - (Len(IntDigits(p)) - 1)
    IN  <<d[1]>> \o (IF Len(d) > 1 THEN <<".">> \o Tail(d) ELSE <<>>)
          \o <<"e", "-">> \o PadDigits(e, 2)

\* CutArgs, with the pair unpacked the wrong way round
RECURSIVE CutArgsByName(_)
CutArgsByName(cs) ==
  IF cs = <<>> THEN <<>>
  ELSE <<cs[1][2], Colon, Newfile>> \o CutArgsByName(Tail(cs))

\* ([str(end), ':', 'newfile'] for end, _ in cuts), chained
RECURSIVE CutArgs(_)
CutArgs(cs) ==
  IF cs = <<>> THEN <<>>
  ELSE <<StrFloat(cs[1][1]), Colon, Newfile>> \o CutArgs(Tail(cs))

\* xs = chain(['0'], ...)
TrimBoundaries(cs) == <<<<"0">>>> \o CutArgs(cs)

\* the files sox writes for the output name <tmp>/<ext>: 001<ext>, 002<ext>..
FragName(i, ext) == PadDigits(i, 3) \o ext

\* sorted(os.listdir(tmp)): strings in the order of their character codes
CharCode(c) ==
  CASE c = "." -> 46
    [] c \in Digits -> 48 + DigitVal(c)
    [] c = "g" -> 103 [] c = "m" -> 109 [] c = "t" -> 116
RECURSIVE LexLess(_, _)
LexLess(a, b) ==
  IF b = <<>> THEN FALSE
  ELSE IF a = <<>> THEN TRUE
  ELSE IF a[1] = b[1] THEN LexLess(Tail(a), Tail(b))
  ELSE CharCode(a[1]) < CharCode(b[1])
SortedList(S) ==
  CHOOSE f \in [1..Cardinality(S) -> S] :
    \A i \in 1..Cardinality(S) : \A j \in (i + 1)..Cardinality(S) : LexLess(f[i], f[j])
Reversed(f) == [i \in 1..Len(f) |-> f[Len(f) + 1 - i]]

\* intermediate.replace('.', '-' + name + '.')
RECURSIVE ReplaceDots(_, _)
ReplaceDots(str, name) ==
  IF str = <<>> THEN <<>>
  ELSE (IF str[1] = "." THEN (<<"-">> \o name) \o <<".">> ELSE <<str[1]>>)
         \o ReplaceDots(Tail(str), name)

Min(a, b) == IF a < b THEN a ELSE b

\* process_cutfile is called with a list of cuts and an extension
ProcInit ==
  /\ SessionIdle /\ ParseIdle /\ CutIdle
  /\ cuts \in SeqsUpTo(ProcRecords, MaxCuts)
  /\ pext \in ProcExtensions
  /\ ppc = "start"
  /\ soxrc = NoCode
  /\ trims = <<>>
  /\ tmpdir = {}
  /\ moved = {}

\* the command is built, sox is started and waited for; sox, an external
\* program, exits with some code and leaves some files behind
ProcTrim ==
  /\ ppc = "start"
  /\ trims' = Append(trims, <<Sox, Infile, (TmpDir \o <<"/">>) \o pext, Trim>>
                              \o TrimBoundaries(cuts))
  /\ \E rc \in ExitCodes : soxrc' = rc
  /\ \E k \in 0..MaxFrags : tmpdir' = {FragName(i, pext) : i \in 1..k}
  /\ ppc' = "waited"
  /\ UNCHANGED <<cuts, pext, moved>>
  /\ UNCHANGED cutVars
  /\ UNCHANGED playerVars /\ UNCHANGED recorderVars /\ UNCHANGED parseVars

\* ProcRename, pairing the listing as it comes, here last file first
ProcRenameUnsorted ==
  /\ ppc = "waited"
  /\ soxrc = 0
  /\ LET listing == Reversed(SortedList(tmpdir))
         n == Min(Len(listing), Len(cuts))
     IN  /\ moved' = {<<listing[i], ReplaceDots(listing[i], cuts[i][2])>> : i \in 1..n}
         /\ tmpdir' = tmpdir \ {listing[i] : i \in 1..n}
  /\ ppc' = "done"
  /\ UNCHANGED <<cuts, pext, soxrc, trims>>
  /\ UNCHANGED cutVars
  /\ UNCHANGED playerVars /\ UNCHANGED recorderVars /\ UNCHANGED parseVars

\* returncode 0: the sorted listing is zipped with the cuts and every pair
\* is renamed into the output directory
ProcRename ==
  /\ ppc = "waited"
  /\ soxrc = 0
  /\ LET listing == SortedList(tmpdir)
         n == Min(Len(listing), Len(cuts))
     IN  /\ moved' = {<<listing[i], ReplaceDots(listing[i], cuts[i][2])>> : i \in 1..n}
         /\ tmpdir' = tmpdir \ {listing[i] : i \in 1..n}
  /\ ppc' = "done"
  /\ UNCHANGED <<cuts, pext, soxrc, trims>>
  /\ UNCHANGED cutVars
  /\ UNCHANGED playerVars /\ UNCHANGED recorderVars /\ UNCHANGED parseVars

\* any other returncode: the command and its output are reported, sys.exit(1)
ProcFail ==
  /\ ppc = "waited"
  /\ soxrc # 0
  /\ exitcode' = 1
  /\ ppc' = "exit"
  /\ UNCHANGED <<args, cutText, cpc, ci, fatal, recorded, cutAttempts>>
  /\ UNCHANGED <<cuts, pext, soxrc, trims, tmpdir, moved>>
  /\ UNCHANGED playerVars /\ UNCHANGED recorderVars /\ UNCHANGED parseVars

ProcNext == ProcTrim \/ ProcRename \/ ProcFail

ProcSpec == ProcInit /\ [][ProcNext]_vars

\* ------------------------------------------------------- scheduling ---
\* Both threads keep running: every step that does not wait for the child
\* or for the user is eventually taken.  Nothing obliges the child to write
\* or to exit, nor the user to type.
Fairness ==
  /\ WF_vars(BgStart) /\ WF_vars(BgPoll) /\ WF_vars(BgReadEOF)
  /\ WF_vars(BgExit) /\ WF_vars(BgReturn)
  /\ WF_vars(FgWhile) /\ WF_vars(FgWait)

FairSpec == Spec /\ Fairness

\* ------------------------------------------------------- properties ---
LoopLeft == bgpc \in {"exit", "return", "done", "raised"}
StopReturns == fgpc = "wait" /\ fgpc' = "while"
PromptIssued == fgpc # "input" /\ fgpc' = "input"
EofSeen == \E i \in 1..Len(inputs) : inputs[i] = EOF
Crashed == exc.type = "EnvironmentError"

\* C1: whenever stop() returns, the loop of Player.play has been left and
\* playing is false
StopWaitsForLoop == [][StopReturns => (LoopLeft' /\ ~playing')]_vars

\* C2: once stop is requested while the child runs, playing eventually
\* becomes false (unless the task dies of an exception), whatever the child
\* does, also when it writes nothing more
StopEventuallyObserved ==
  (stop /\ code = NoCode /\ exc = NoExc) ~> (~playing \/ exc # NoExc)

\* C3: once the task has raised the error for a nonzero exit code of the
\* child, generate_cutfile issues no further prompt and records no further
\* segment
CrashIsFatal ==
  [][Crashed => (~PromptIssued /\ Len(disk' \o pending') = Len(disk \o pending))]_vars

\* C4: after input() has raised EOFError no further prompt is issued
NoPromptAfterEOF == [][EofSeen => ~PromptIssued]_vars

\* C7: once the child has exited with code 0 the session ends by itself:
\* when the user has typed nothing and types nothing, generate_cutfile
\* still leaves its loop (unless the task dies of an exception)
SessionEndsAfterPlayback ==
  (code = 0 /\ exc = NoExc /\ inputs = <<>>)
    ~> (fgpc = "done" \/ exc # NoExc \/ inputs # <<>>)

\* the console events of the session so far, and the names among them that
\* generate_cutfile accepts
LastInput == inputs[Len(inputs)]
InputArrives == Len(inputs') = Len(inputs) + 1
IsAccepted(n) == n # EOF /\ ~HasSlash(n)
Accepted == SelectSeq(inputs, IsAccepted)
\* the name field of a written record line: what follows '  <number> ' up to
\* the line terminator
LineName(line) == SubSeq(line, 4 + NumRun(line, 3), Len(line) - 1)

\* C5: a name with '/' changes nothing in the cut file, written or buffered,
\* puts one error message on stderr and takes generate_cutfile back to the
\* head of its loop
SlashRejected ==
  [][(InputArrives /\ HasSlash(LastInput'))
       => (disk' = disk /\ pending' = pending /\ errs' = errs + 1 /\ fgpc' = "while")]_vars

SlashRejectedWitness ==
  /\ Len(inputs) >= 1 /\ HasSlash(LastInput)
  /\ errs = 1
  /\ fgpc = "input"

\* C6 as stated: at every prompt after some input, the flushed file holds
\* the header and one record per accepted name
FlushedAtEveryPrompt ==
  (fgpc = "input" /\ Len(inputs) >= 1)
    => (pending = <<>> /\ Len(disk) = 1 + Len(Accepted) /\ disk[1] = Header)

\* C6: an accepted name appends exactly one line, made of the position at
\* that moment and the name, and everything written so far is flushed with
\* it; the file (flushed and buffered parts together) is the header and one
\* record per accepted name in input order, and nothing is left in the
\* buffer once a name has been accepted or the file has been closed
RecordAppended ==
  (InputArrives /\ IsAccepted(LastInput'))
    => /\ disk' = (disk \o pending) \o <<RecordLine(position, LastInput')>>
       /\ pending' = <<>>
       /\ fgpc' = "while"
FileHoldsAccepted ==
  LET file == disk \o pending IN
    /\ Len(file) = 1 + Len(Accepted)
    /\ file[1] = Header
    /\ \A i \in 1..Len(Accepted) : LineName(file[i + 1]) = Accepted[i]
    /\ (Len(Accepted) >= 1 \/ fgpc = "done") => pending = <<>>
    /\ (Len(Accepted) = 0 /\ fgpc # "done") => disk = <<>>
RecordsFlushed == []FileHoldsAccepted /\ [][RecordAppended]_vars

RecordsFlushedWitness ==
  /\ fgpc = "input"
  /\ Len(Accepted) = 2 /\ Accepted[1] # Accepted[2]
  /\ Len(disk) = 3 /\ pending = <<>>
  /\ disk[2] = RecordLine(0, Accepted[1])
  /\ disk[3] = RecordLine(Scale, Accepted[2])

\* C8 as stated: while playing, no step lowers position
PositionMonotone == [][playing => position' >= position]_vars

\* C8: position changes only when the loop reads a carriage return after a
\* buffer that matches the status pattern, and then becomes exactly the
\* number that buffer reports, whether or not it is lower than before
PositionFollowsStatus ==
  [][position' # position
       => /\ playing /\ bgpc = "read"
          /\ StatusMatch(buffer) /\ FloatOk(StatusGroup(buffer))
          /\ position' = FloatVal(StatusGroup(buffer))]_vars

PositionFollowsStatusWitness ==
  playing /\ position = 2 * Scale /\ buffer = <<>> /\ bgpc = "poll"

\* C9: lines written from valid records parse back to those records, the
\* positions rounded to the six written decimals
ParseFinished == perr # NoExc \/ idx = Len(lines)
IsWritten(line) == \E r \in Records : line = RecordLine(r.pos, r.name)
RoundTrip ==
  (ParseFinished /\ \A i \in 1..Len(lines) : IsWritten(lines[i]))
    => /\ perr = NoExc
       /\ Len(yielded) = Len(lines)
       /\ \A i \in 1..Len(lines) : \A r \in Records :
            lines[i] = RecordLine(r.pos, r.name)
              => yielded[i] = <<10 * Micro(r.pos), r.name>>

\* C10 as stated: every line consumed before the end matched and gave its
\* record, and the generator dies only of a line that does not match, with
\* the error that quotes it
RecordOf(line) == <<FloatVal(CutGroup1(line)), CutGroup2(line)>>
YieldedInOrder ==
  /\ Len(yielded) = idx
  /\ \A i \in 1..idx : CutfileMatch(lines[i]) /\ yielded[i] = RecordOf(lines[i])
AbortOnlyOnMismatch ==
  /\ YieldedInOrder
  /\ perr # NoExc => (~CutfileMatch(lines[idx + 1]) /\ perr = InvalidLine(lines[idx + 1]))

\* C10: records are yielded in order, one per line that matches and whose
\* number converts; the first line that does not match ends the generator
\* with the error quoting that line, the first matching line whose number
\* float() refuses ends it with float()'s error quoting the number; after
\* either nothing more is yielded
AbortOnFirstBadLine ==
  /\ YieldedInOrder
  /\ \A i \in 1..idx : FloatOk(CutGroup1(lines[i]))
  /\ perr # NoExc =>
       /\ idx < Len(lines)
       /\ IF CutfileMatch(lines[idx + 1])
            THEN ~FloatOk(CutGroup1(lines[idx + 1]))
                 /\ perr = FloatError(CutGroup1(lines[idx + 1]))
            ELSE perr = InvalidLine(lines[idx + 1])
ParseAborts ==
  []AbortOnFirstBadLine /\ [][perr # NoExc => (yielded' = yielded /\ perr' = perr)]_vars

ParseAbortsWitness ==
  /\ Len(lines) = 3 /\ idx = 1 /\ Len(yielded) = 1
  /\ perr = InvalidLine(lines[2])
  /\ CutfileMatch(lines[3])

\* C16: once the stop flag is set, position is never assigned again
NoUpdateAfterStop == [][stop => position' = position]_vars

\* C17: once playing is false, position never changes again and playing
\* never becomes true again
FrozenAfterPlaying == [][~playing => (position' = position /\ ~playing')]_vars

FrozenAfterPlayingWitness ==
  ~playing /\ position = 2 * Scale /\ bgpc = "done" /\ code = NoCode

\* the step of the loop that takes character c from read(1)
ReadsChar(c) == bgpc = "read" /\ Consume(c)
\* text without '(', then '(', then at least one character of [0-9.]
HasPosition(buf) ==
  \E p \in 2..(Len(buf) - 1) :
    /\ buf[p] = "("
    /\ \A j \in 1..(p - 1) : buf[j] # "("
    /\ IsNumChar(buf[p + 1])

SingleWriter ==
  [][/\ (position' # position \/ playing' # playing)
          => /\ bgpc \in {"read", "exit"} /\ bgpc' # bgpc
             /\ stop' = stop
             /\ UNCHANGED recorderVars
     /\ stop' # stop
          => /\ fgpc = "input" /\ fgpc' = "wait"
             /\ UNCHANGED <<position, playing, bgpc, buffer, future, exc>>]_vars

SingleWriterWitness ==
  stop /\ ~playing /\ position = 1 * Scale /\ fgpc = "done"

\* C11: a run ended by a format error has no input file left after the one
\* whose cut-list failed: those after it have been processed
FormatErrorSkipsOneFile ==
  (cpc = "exit" /\ fatal.type = "ValueError") => ci = Len(args.infiles)

\* C12: with a tool missing, no input file or an input path that is not a
\* regular file, no session is started, no cut file written, no generator
\* made and no trim started, and the run ends with exit code 1
PreflightBad ==
  \/ ~(Tools \subseteq args.tools)
  \/ Len(args.infiles) = 0
  \/ \E i \in 1..Len(args.infiles) : args.infiles[i] \notin args.regular
NothingProcessed ==
  /\ recorded = <<>> /\ cutAttempts = <<>> /\ trims = <<>>
  /\ cutText = args.cut0
  /\ lines = <<>>
PreflightGuards ==
  PreflightBad => /\ NothingProcessed
                  /\ cpc \in {"preflight", "exit"}
                  /\ cpc = "exit" => exitcode = 1

PreflightGuardsWitness ==
  /\ cpc = "exit" /\ exitcode = 1
  /\ Tools \subseteq args.tools
  /\ Len(args.infiles) = 2
  /\ args.infiles[1] \in args.regular /\ args.infiles[2] \notin args.regular
  /\ args.cut0[Root(args.infiles[1])] = <<>>
  /\ Root(args.infiles[1]) \notin args.dirs

\* C13: in the iteration for an input file the recording step runs exactly
\* when overwrite is set or the file has no cut file, and the cutting step is
\* entered exactly when it has no output directory; no cut file changes
\* otherwise
RecordDecision ==
  (cpc = "iter" /\ cpc' = "cutstep") =>
    /\ (args.overwrite \/ cutText[Root(CurFile)] = <<>>)
         <=> recorded' = Append(recorded, ci)
    /\ recorded' # Append(recorded, ci) => (recorded' = recorded /\ cutText' = cutText)
CutDecision ==
  (cpc = "cutstep" /\ cpc' # "cutstep") =>
    /\ (Root(CurFile) \notin args.dirs) <=> cutAttempts' = Append(cutAttempts, ci)
    /\ cutAttempts' # Append(cutAttempts, ci) => (cutAttempts' = cutAttempts /\ ci' = ci + 1)
CutFilesKept ==
  /\ \A r \in Roots :
       cutText'[r] # cutText[r] =>
         (cpc = "iter" /\ r = Root(CurFile) /\ (args.overwrite \/ cutText[r] = <<>>))
  /\ cutAttempts' # cutAttempts => Root(CurFile) \notin args.dirs
StepsRunWhenDue == [][RecordDecision /\ CutDecision /\ CutFilesKept]_vars

StepsRunWhenDueWitness ==
  /\ cpc = "exit" /\ exitcode = 0
  /\ ~args.overwrite
  /\ Len(args.infiles) = 2
  /\ args.cut0[Root(args.infiles[1])] = <<>>
  /\ args.cut0[Root(args.infiles[2])] # <<>>
  /\ recorded = <<1>> /\ cutAttempts = <<>>
  /\ cutText[Root(args.infiles[2])] = args.cut0[Root(args.infiles[2])]

\* C15: for an input file whose cut file this run has recorded, the cutting
\* step parses the record lines of that file: list(cuts) ends without an
\* exception and holds one (end_time, name) per record line, in order
HandsOverRecords ==
  (cpc = "list" /\ ParseFinished /\ \E k \in 1..Len(recorded) : recorded[k] = ci)
    => LET text == cutText[Root(CurFile)] IN
         /\ perr = NoExc
         /\ Len(yielded) = Len(text) - 1
         /\ \A i \in 1..Len(yielded) : \A r \in SessionRecords :
              text[i + 1] = RecordLine(r.pos, r.name)
                => yielded[i] = <<10 * Micro(r.pos), r.name>>

\* C14: sox is started exactly once, and after 'trim' its arguments are
\* '0' and then, for each cut in order, the end time, ':' and 'newfile'
EndTimeText(e) ==
  CASE e = Scale -> <<"1", ".", "0">>
    [] e = 25000000 -> <<"2", ".", "5">>
    [] e = 6 -> <<"6", "e", "-", "0", "7">>
TrimInvokedOnce ==
  /\ Len(trims) = (IF ppc = "start" THEN 0 ELSE 1)
  /\ ppc # "start" =>
       LET cmd == trims[1]
           b == SubSeq(cmd, 5, Len(cmd))
       IN  /\ cmd[1] = Sox /\ cmd[2] = Infile /\ cmd[4] = Trim
           /\ Len(b) = 1 + 3 * Len(cuts)
           /\ b[1] = <<"0">>
           /\ \A i \in 1..Len(cuts) :
                /\ b[3 * i - 1] = EndTimeText(cuts[i][1])
                /\ b[3 * i] = Colon
                /\ b[3 * i + 1] = Newfile
           /\ cuts = <<<<Scale, Intro>>, <<25000000, Verse>>>>
                => b = << <<"0">>, <<"1", ".", "0">>, <<":">>, Newfile,
                          <<"2", ".", "5">>, <<":">>, Newfile >>

TrimInvokedOnceWitness ==
  /\ ppc = "done"
  /\ cuts = <<<<Scale, Intro>>, <<25000000, Verse>>>>
  /\ Len(trims) = 1 /\ Len(trims[1]) = 11

\* C20: after a successful trim the i-th file of the temporary directory,
\* in the order of the names, is in the output directory under a name that
\* keeps its number and embeds the name of the i-th cut and of no other cut,
\* for i up to the smaller of the two counts, and nothing else is renamed;
\* after a failed trim nothing is renamed and the exit code is 1
Embeds(str, name) ==
  \E k \in 0..(Len(str) - Len(name) - 2) :
    SubSeq(str, k + 1, k + Len(name) + 2) = (<<"-">> \o name) \o <<".">>
Fragments == tmpdir \cup {m[1] : m \in moved}
RenamesPositional ==
  /\ ppc = "done" =>
       LET n == Min(Cardinality(Fragments), Len(cuts)) IN
         /\ soxrc = 0
         /\ Cardinality(moved) = n
         /\ \A m \in moved : m[1] \notin tmpdir
         /\ \A i \in 1..n : \E m \in moved :
              /\ m[1] = FragName(i, pext)
              /\ SubSeq(m[2], 1, 3) = SubSeq(m[1], 1, 3)
              /\ Embeds(m[2], cuts[i][2])
              /\ \A j \in 1..Len(cuts) :
                   cuts[j][2] # cuts[i][2] => ~Embeds(m[2], cuts[j][2])
  /\ ppc = "exit" => (soxrc # 0 /\ moved = {} /\ exitcode = 1)
  /\ ppc \in {"start", "waited"} => moved = {}

RenamesPositionalWitness ==
  /\ ppc = "done"
  /\ Len(cuts) = 2 /\ cuts[1][2] # cuts[2][2]
  /\ Cardinality(moved) = 2 /\ Cardinality(tmpdir) = 1

====
